---- MODULE Spec2Model ----
(***************************************************************************)
(* A model of the Spotify library grabber (src/index.js and the            *)
(* folder-structure variant documented beside it).                         *)
(*                                                                         *)
(* The express server keeps one /callback handler activation per request.  *)
(* Each activation is an async function: it runs synchronously up to its   *)
(* next await, and every action below is one such run-to-the-next-await    *)
(* step (the resolution or rejection of the awaited promise plus all the   *)
(* synchronous code that follows it).                                      *)
(***************************************************************************)
EXTENDS Integers, Sequences, FiniteSets, TLC

(***************************************************************************)
(* Bounds of the model.                                                    *)
(***************************************************************************)
\* /callback requests received during one process lifetime
MaxRequests == 2
\* items a drained collection holds (process model)
MaxItems == 1
\* pages a stub endpoint serves
MaxPages == 3
\* characters of a string handed to sanitizeFilename
MaxLen == 3
\* credited artists of the stubbed album
MaxArtists == 2
\* tracks the stubbed album embeds
MaxTracks == 2
\* nesting depth of the rootlist's folders
MaxDepth == 2
\* entities (shows, artists, albums, playlists) of the exported library
MaxEntities == 2

VARIABLES
  handlers,   \* request id -> the state of its /callback activation
  exited,     \* process.exit has been called
  exitCode    \* the code passed to process.exit (meaningful once exited)

procVars == <<handlers, exited, exitCode>>

\* One run of a pagination loop against a stub endpoint.
VARIABLES
  drainer,    \* "offset": fetchAllItems; "cursor": the followed-artists loop
  endpoint,   \* the pages the stub endpoint serves
  dpc,        \* "start": the loop is about to be entered; "await": it is
              \* suspended at its awaited call; "returned": it has ended
  items,      \* the accumulated items
  offset,     \* fetchAllItems' offset
  after,      \* the followed-artists loop's cursor
  calls       \* the options of the calls issued so far (while the loop
              \* is suspended the last of them is not answered yet)

pageVars == <<drainer, endpoint, dpc, items, offset, after, calls>>

\* Applications of sanitizeFilename to one string.
VARIABLES
  filename,   \* the string handed to sanitizeFilename
  sanitized   \* the results of applying it once, twice, ...

sanVars == <<filename, sanitized>>

\* The output tree, and one run of saveAlbums over a stubbed saved album.
VARIABLES
  fs,         \* path -> what fs.mkdir / fs.writeFile put there
  albumItem,  \* the saved-album item the stub returns
  apc         \* the await saveAlbums is suspended at

albumVars == <<albumItem, apc>>

\* One export run over a small library, entity names and paths in full.
VARIABLES
  variant,    \* "primary": index.js; "folders": the playlist-folder variant
  folderMap,  \* playlist URI -> folder path, built by getPlaylistFolderMap
  xpc,        \* the await the run is suspended at: stage, phase, pending item
  budget      \* entities the library still holds

expVars == <<variant, folderMap, xpc, budget>>

\* The rootlist endpoint of a run that observes getPlaylistFolderMap.
VARIABLES
  rootItems   \* response.data.items the stub rootlist endpoint serves

dataVars == <<pageVars, sanVars, fs, albumVars, expVars, rootItems>>
vars == <<procVars, dataVars>>

\* What the actions of one part of the model leave alone.
exceptPaging == <<procVars, sanVars, fs, albumVars, expVars, rootItems>>
exceptSanitize == <<procVars, pageVars, fs, albumVars, expVars, rootItems>>
exceptAlbum == <<procVars, pageVars, sanVars, expVars, rootItems>>
exceptExport == <<procVars, pageVars, sanVars, albumVars, rootItems>>

(***************************************************************************)
(* The orchestration: src/index.js, app.get('/callback').                  *)
(***************************************************************************)
Requests == 1..MaxRequests

\* A handler that awaits saveAlbums before saveFollowedArtists.
StageOrderSwapped ==
  <<"LikedSongs", "Podcasts", "Albums", "FollowedArtists", "Playlists">>

\* The five awaited stage calls, in the order of the source (lines 281-285).
StageOrder ==
  <<"LikedSongs", "Podcasts", "FollowedArtists", "Albums", "Playlists">>

StageIndex(s) == CHOOSE i \in 1..Len(StageOrder) : StageOrder[i] = s

\* HTTP statuses a rejected Web API call carries (429 is the one the catch
\* block singles out); 0 stands for an error without statusCode.
ErrorStatuses == {429, 500}

NewHandler ==
  [ pc       |-> "new",      \* the await the activation is suspended at
    stage    |-> "none",     \* the save* function it is inside
    todo     |-> 0,          \* items of the drained collection not yet written
    drained  |-> 0,          \* items the stage's page fetches accumulated (after
                             \* a failed fetch: up to the failure)
    saved    |-> {},         \* entity files of the stage's collection on disk:
                             \* the item's place in the collection, 0 for
                             \* Liked Songs.json
    nullItem |-> FALSE,      \* the drained track items hold one with track: null
    started  |-> FALSE,      \* "Start the backup process" was reached
    wrote    |-> FALSE,      \* an fs.mkdir / fs.writeFile of this activation resolved
    console  |-> <<>>,       \* the stage messages this activation logged
    failedAt |-> "none",     \* what threw into the catch block
    status   |-> 0 ]         \* err.statusCode seen by the catch block

\* No pagination run is under observation.
PageIdle ==
  /\ drainer = "none" /\ endpoint = <<>> /\ dpc = "idle"
  /\ items = <<>> /\ offset = 0 /\ after = "null" /\ calls = <<>>

ProcIdle ==
  /\ handlers = <<>> /\ exited = FALSE /\ exitCode = 0

SanIdle ==
  /\ filename = <<>> /\ sanitized = <<>>

AlbumIdle ==
  /\ albumItem = <<>> /\ apc = "idle"

ExportIdle ==
  /\ variant = "none" /\ folderMap = <<>> /\ xpc = <<>> /\ budget = 0

FsIdle == fs = <<>>

TreeIdle == rootItems = <<>>

Init ==
  /\ handlers = [r \in Requests |-> NewHandler]
  /\ exited = FALSE
  /\ exitCode = 0
  /\ PageIdle /\ SanIdle /\ AlbumIdle /\ ExportIdle /\ FsIdle /\ TreeIdle

H(r) == handlers[r]

Set(r, h) == handlers' = [handlers EXCEPT ![r] = h] /\ UNCHANGED dataVars

Running(r, pcs) == ~exited /\ H(r).pc \in pcs

\* catch (err) { console.error(...); if (err.statusCode === 429) ...; res.send }
\* The block neither rethrows nor exits; the locals of the abandoned save*
\* call are gone, nothing is returned to the handler.
Catch(h, what, st) ==
  [h EXCEPT !.pc = "caught", !.failedAt = what, !.status = st,
            !.todo = 0, !.nullItem = FALSE,
            !.drained = IF what = "fetch" THEN @ ELSE 0]

\* app.get('/login'): a redirect, no state of the program changes.
Login == ~exited /\ UNCHANGED vars

\* A /callback request arrives with an `error` query parameter.
CallbackError(r) ==
  /\ Running(r, {"new"})
  /\ \A q \in Requests : q < r => H(q).pc # "new"
  /\ Set(r, [H(r) EXCEPT !.pc = "errorReturned"])
  /\ UNCHANGED <<exited, exitCode>>

\* A /callback request arrives with a code: authorizationCodeGrant is awaited.
CallbackCode(r) ==
  /\ Running(r, {"new"})
  /\ \A q \in Requests : q < r => H(q).pc # "new"
  /\ Set(r, [H(r) EXCEPT !.pc = "grant"])
  /\ UNCHANGED <<exited, exitCode>>

\* A catch block that gives up on a failed exchange with process.exit(1).
GrantRejectExits(r) ==
  /\ Running(r, {"grant"})
  /\ Set(r, Catch(H(r), "grant", 400))
  /\ exited' = TRUE
  /\ exitCode' = 1

\* authorizationCodeGrant rejects (bad or expired code).
GrantReject(r) ==
  /\ Running(r, {"grant"})
  /\ Set(r, Catch(H(r), "grant", 400))
  /\ UNCHANGED <<exited, exitCode>>

\* authorizationCodeGrant resolves: tokens are set, the response is sent and
\* fs.mkdir(outputDir) is awaited.
GrantResolve(r) ==
  /\ Running(r, {"grant"})
  /\ Set(r, [H(r) EXCEPT !.pc = "mkdirRoot", !.started = TRUE])
  /\ UNCHANGED <<exited, exitCode>>

\* The synchronous head of a save* function, up to its first await: the
\* '🎵 Fetching ...' message, then the first page fetch; saveFollowedArtists
\* creates its directory before it fetches.
EnterStage(h, s) ==
  [h EXCEPT !.stage = s,
            !.pc = IF s = "FollowedArtists" THEN "mkdir" ELSE "fetch",
            !.todo = 0,
            !.drained = 0,
            !.saved = {},
            !.nullItem = FALSE,
            !.console = Append(@, <<"start", s>>)]

\* The save* function returns: its '✅ ... saved!' message, then the next
\* awaited call of the handler, or '🎉 All done!' and process.exit(0).
Finish(r, h) ==
  LET d == [h EXCEPT !.console = Append(@, <<"done", h.stage>>),
                     !.todo = 0, !.drained = 0]
      i == StageIndex(h.stage)
  IN IF i = Len(StageOrder)
       THEN /\ Set(r, [d EXCEPT !.pc = "done"])
            /\ exited' = TRUE
            /\ exitCode' = 0
       ELSE /\ Set(r, EnterStage(d, StageOrder[i + 1]))
            /\ UNCHANGED <<exited, exitCode>>

\* The head of the `for (const item of ...)` loop of a stage.
NextItem(r, h) ==
  IF h.todo = 0
    THEN Finish(r, h)
    ELSE /\ Set(r, [h EXCEPT !.pc =
                 CASE h.stage \in {"Podcasts", "Albums"} -> "itemMkdir"
                   [] h.stage = "Playlists" -> "trackFetch"
                   [] OTHER -> "write"])
         /\ UNCHANGED <<exited, exitCode>>

\* fs.mkdir(outputDir) resolves and saveLikedSongs is entered.
MkdirRootResolve(r) ==
  /\ Running(r, {"mkdirRoot"})
  /\ Set(r, EnterStage([H(r) EXCEPT !.wrote = TRUE], StageOrder[1]))
  /\ UNCHANGED <<exited, exitCode>>

\* The place in the collection of the item the stage's loop is at.
CurrentItem(h) == h.drained - h.todo + 1

\* A stage that writes the items of every page as soon as the page arrives.
FetchResolveStreaming(r, n, next, nullTrack) ==
  /\ Running(r, {"fetch"})
  /\ H(r).todo + n <= MaxItems
  /\ nullTrack => (n > 0 /\ H(r).stage = "LikedSongs")
  /\ LET h == [H(r) EXCEPT !.todo = @ + n, !.drained = @ + n,
                           !.nullItem = @ \/ nullTrack,
                           !.saved = @ \cup ((H(r).drained + 1)..(H(r).drained + n))]
     IN IF next
          THEN Set(r, h) /\ UNCHANGED <<exited, exitCode>>
          ELSE IF h.stage = "FollowedArtists"
                 THEN NextItem(r, h)
                 ELSE Set(r, [h EXCEPT !.pc = "mkdir"])
                      /\ UNCHANGED <<exited, exitCode>>

\* A page of the stage's collection arrives: `n` items, a next-page signal
\* (response.body.next, or cursors.after for the followed artists), and for
\* saved tracks whether one of the items has track: null. The items are
\* pushed onto the local array; nothing is written.
FetchResolve(r, n, next, nullTrack) ==
  /\ Running(r, {"fetch"})
  /\ H(r).todo + n <= MaxItems
  /\ nullTrack => (n > 0 /\ H(r).stage = "LikedSongs")
  /\ LET h == [H(r) EXCEPT !.todo = @ + n, !.drained = @ + n,
                           !.nullItem = @ \/ nullTrack]
     IN IF next
          THEN Set(r, h) /\ UNCHANGED <<exited, exitCode>>
          ELSE IF h.stage = "FollowedArtists"
                 THEN NextItem(r, h)
                 ELSE Set(r, [h EXCEPT !.pc = "mkdir"])
                      /\ UNCHANGED <<exited, exitCode>>

\* The stage's directory exists. saveLikedSongs then maps the drained items
\* (item.track.name throws a TypeError on track: null) and writes one file;
\* saveFollowedArtists starts its cursor loop; the others enter their loop.
MkdirResolve(r) ==
  /\ Running(r, {"mkdir"})
  /\ LET h == [H(r) EXCEPT !.wrote = TRUE]
     IN CASE h.stage = "LikedSongs" ->
               /\ Set(r, IF h.nullItem THEN Catch(h, "project", 0)
                                       ELSE [h EXCEPT !.pc = "write"])
               /\ UNCHANGED <<exited, exitCode>>
          [] h.stage = "FollowedArtists" ->
               /\ Set(r, [h EXCEPT !.pc = "fetch"])
               /\ UNCHANGED <<exited, exitCode>>
          [] OTHER -> NextItem(r, h)

\* fs.mkdir(fullShowPath) / fs.mkdir(fullAlbumPath) resolves.
ItemMkdirResolve(r) ==
  /\ Running(r, {"itemMkdir"})
  /\ Set(r, [H(r) EXCEPT !.pc = "write", !.wrote = TRUE])
  /\ UNCHANGED <<exited, exitCode>>

\* A page of the current playlist's tracks arrives; after the last page the
\* tracks are mapped (item.track.name throws on track: null).
TrackFetchResolve(r, next, nullTrack) ==
  /\ Running(r, {"trackFetch"})
  /\ LET h == [H(r) EXCEPT !.nullItem = @ \/ nullTrack]
     IN /\ Set(r, IF next THEN h
                  ELSE IF h.nullItem THEN Catch(h, "project", 0)
                  ELSE [h EXCEPT !.pc = "write"])
        /\ UNCHANGED <<exited, exitCode>>

\* fs.writeFile resolves: Liked Songs.json, or the file of the current item.
WriteResolve(r) ==
  /\ Running(r, {"write"})
  /\ LET h == [H(r) EXCEPT !.wrote = TRUE]
     IN IF h.stage = "LikedSongs"
          THEN Finish(r, [h EXCEPT !.saved = @ \cup {0}])
          ELSE NextItem(r, [h EXCEPT !.saved = @ \cup {CurrentItem(h)},
                                     !.todo = @ - 1])

\* A Web API call of the pipeline rejects (429, 5xx).
FetchReject(r, st) ==
  /\ Running(r, {"fetch", "trackFetch"})
  /\ Set(r, Catch(H(r), "fetch", st))
  /\ UNCHANGED <<exited, exitCode>>

\* An fs.mkdir or fs.writeFile of the pipeline rejects.
FsReject(r) ==
  /\ Running(r, {"mkdirRoot", "mkdir", "itemMkdir", "write"})
  /\ Set(r, Catch(H(r), "write", 0))
  /\ UNCHANGED <<exited, exitCode>>

Next ==
  \/ Login
  \/ \E r \in Requests :
       \/ CallbackError(r)
       \/ CallbackCode(r)
       \/ GrantReject(r)
       \/ GrantResolve(r)
       \/ MkdirRootResolve(r)
       \/ \E n \in 0..MaxItems, next \in BOOLEAN, nullTrack \in BOOLEAN :
            FetchResolve(r, n, next, nullTrack)
       \/ MkdirResolve(r)
       \/ ItemMkdirResolve(r)
       \/ \E next \in BOOLEAN, nullTrack \in BOOLEAN :
            TrackFetchResolve(r, next, nullTrack)
       \/ WriteResolve(r)
       \/ \E st \in ErrorStatuses : FetchReject(r, st)
       \/ FsReject(r)

Spec == Init /\ [][Next]_vars

(***************************************************************************)
(* Strings and sanitizeFilename (src/index.js lines 35-37).  A string is   *)
(* the sequence of its characters; a literal of the source that holds none *)
(* of the characters the program looks at is kept as one element.          *)
(***************************************************************************)
\* The character class of the regular expression: \ / : * ? " < > |
Reserved == {"\\", "/", ":", "*", "?", "\"", "<", ">", "|"}

\* The reserved characters, the replacement character, a letter, a dot.
Alphabet == Reserved \cup {"_", "a", "."}

\* The strings over `chars` of at most n characters.
Strings(chars, n) == UNION { [1..k -> chars] : k \in 0..n }

\* filename.replace(/[\\/:*?"<>|]/, '_'): without the g flag only the first
\* match is replaced.
sanitizeFirstOnly(s) ==
  IF \E i \in 1..Len(s) : s[i] \in Reserved
    THEN LET f == CHOOSE i \in 1..Len(s) :
                    s[i] \in Reserved /\ \A j \in 1..(i - 1) : s[j] \notin Reserved
         IN [s EXCEPT ![f] = "_"]
    ELSE s

\* filename.replace(/[\\/:*?"<>|]/g, '_')
sanitizeFilename(s) ==
  [i \in 1..Len(s) |-> IF s[i] \in Reserved THEN "_" ELSE s[i]]

InitSanitize ==
  /\ ProcIdle /\ PageIdle /\ AlbumIdle /\ ExportIdle /\ FsIdle /\ TreeIdle
  /\ filename \in Strings(Alphabet, MaxLen)
  /\ sanitized = <<>>

\* sanitizeFilename is applied to the string, then to its own result.
Sanitize ==
  /\ Len(sanitized) < 2
  /\ sanitized' = Append(sanitized,
       sanitizeFilename(IF sanitized = <<>> THEN filename
                                            ELSE sanitized[Len(sanitized)]))
  /\ UNCHANGED <<filename, exceptSanitize>>

NextSanitize == Sanitize

SpecSanitize == InitSanitize /\ [][NextSanitize]_vars

\* C8: for every string over the alphabet, sanitizeFilename(s) holds no
\* reserved character and sanitizing it again changes nothing.
C8_SanitizeIdempotent ==
  /\ Len(sanitized) >= 1 =>
       \A i \in 1..Len(sanitized[1]) : sanitized[1][i] \notin Reserved
  /\ Len(sanitized) >= 2 => sanitized[2] = sanitized[1]

\* A string with two reserved characters, an underscore and no other
\* character has been sanitized twice.
C8_Witness ==
  /\ Len(sanitized) = 2
  /\ Cardinality({i \in 1..Len(filename) : filename[i] \in Reserved}) >= 2
  /\ \E i \in 1..Len(filename) : filename[i] = "_"

(***************************************************************************)
(* Paths.  A path is the sequence of its segments, each a string; the      *)
(* absolute paths of the program start at the file system root.            *)
(***************************************************************************)
RECURSIVE Split(_)
\* The pieces of a string between its "/" separators.
Split(s) ==
  IF \A i \in 1..Len(s) : s[i] # "/"
    THEN <<s>>
    ELSE LET f == CHOOSE i \in 1..Len(s) :
                    s[i] = "/" /\ \A j \in 1..(i - 1) : s[j] # "/"
         IN <<SubSeq(s, 1, f - 1)>> \o Split(SubSeq(s, f + 1, Len(s)))

RECURSIVE Normalize(_, _, _)
\* path.normalize: empty and "." segments vanish, ".." removes the segment
\* before it; at the root of an absolute path ".." vanishes, in front of a
\* relative path it stays.
Normalize(segs, acc, absolute) ==
  IF segs = <<>> THEN acc
  ELSE LET s == Head(segs)
           r == Tail(segs)
       IN CASE s \in {<<>>, <<".">>} -> Normalize(r, acc, absolute)
            [] s = <<".", ".">> ->
                 IF acc # <<>> /\ acc[Len(acc)] # <<".", ".">>
                   THEN Normalize(r, SubSeq(acc, 1, Len(acc) - 1), absolute)
                   ELSE IF absolute THEN Normalize(r, acc, absolute)
                                    ELSE Normalize(r, Append(acc, s), absolute)
            [] OTHER -> Normalize(r, Append(acc, s), absolute)

\* path.join(dir, name) for an absolute dir.
PathJoin(dir, name) == Normalize(dir \o Split(name), <<>>, TRUE)

\* const outputDir = path.join(__dirname, 'Spotify Library')
outputDir == << <<"__dirname">>, <<"Spotify Library">> >>

Dir == [type |-> "dir"]
File(json) == [type |-> "file", json |-> json]

\* Directories that exist before the program runs: the script's directory
\* and what lies above it.
OnDisk == { <<>>, << <<"__dirname">> >> }

\* fs.mkdir(p, { recursive: true }): p and every ancestor of p that does not
\* exist yet are created; what exists is left as it is.
Mkdir(tree, p) ==
  LET missing == {SubSeq(p, 1, k) : k \in 0..Len(p)} \ (DOMAIN tree \cup OnDisk)
  IN [q \in DOMAIN tree \cup missing |-> IF q \in missing THEN Dir ELSE tree[q]]

\* fs.writeFile(p, JSON.stringify(json))
WriteFile(tree, p, json) ==
  [q \in DOMAIN tree \cup {p} |-> IF q = p THEN File(json) ELSE tree[q]]

(***************************************************************************)
(* saveAlbums (src/index.js lines 64-102) over one stubbed album item.     *)
(***************************************************************************)
RECURSIVE Join(_, _)
\* Array.prototype.join
Join(strs, sep) ==
  IF strs = <<>> THEN <<>>
  ELSE IF Len(strs) = 1 THEN strs[1]
  ELSE strs[1] \o sep \o Join(Tail(strs), sep)

\* An album credited to its first artist only.
artistNameFirstOnly(album) == album.artists[1].name

\* album.artists.map(a => a.name).join(', ')
artistName(album) ==
  Join([i \in 1..Len(album.artists) |-> album.artists[i].name], <<", ">>)

\* sanitizeFilename(`${artistName} - ${albumTitle}`)
albumFolderName(album) ==
  sanitizeFilename(artistName(album) \o <<" - ">> \o album.name)

albumsDir == PathJoin(outputDir, <<"Albums">>)

fullAlbumPath(album) == PathJoin(albumsDir, albumFolderName(album))

\* const albumInfo = { ... }
albumInfo(album) ==
  [ name         |-> album.name,
    artist       |-> artistName(album),
    id           |-> album.id,
    uri          |-> album.uri,
    release_date |-> album.release_date,
    total_tracks |-> album.total_tracks,
    tracks       |-> [i \in 1..Len(album.tracks.items) |->
                        [ track_number |-> album.tracks.items[i].track_number,
                          name         |-> album.tracks.items[i].name,
                          duration_ms  |-> album.tracks.items[i].duration_ms,
                          uri          |-> album.tracks.items[i].uri ]] ]

ArtistNames == {<<"A">>, <<"B">>}
AlbumTitles == {<<"T">>, <<"T", "/">>}

\* The k-th embedded track of a stub, with the track number the stub gives it.
StubTrack(k, n) ==
  [ track_number |-> n, name |-> <<"track", k>>, duration_ms |-> 1000 * k,
    uri |-> <<"spotify:track", k>> ]

\* Stubbed saved-album items: one to MaxArtists artists and up to MaxTracks
\* embedded tracks in any order of track numbers (a second disc starts again
\* at 1). The embedded tracks are the album's first page of tracks: when the
\* page is full, total_tracks may exceed the number of embedded tracks.
SavedAlbums ==
  UNION { { [ added_at |-> "2025-01-01",
              album |->
                [ name |-> title,
                  artists |-> [i \in 1..na |-> [name |-> names[i]]],
                  id |-> "album1",
                  uri |-> "spotify:album:1",
                  release_date |-> "2024",
                  total_tracks |-> nt + more,
                  tracks |-> [items |-> [k \in 1..nt |-> StubTrack(k, nums[k])]]
                ] ] :
              names \in [1..na -> ArtistNames], title \in AlbumTitles,
              nums \in [1..nt -> 1..MaxTracks],
              more \in (IF nt = MaxTracks THEN {0, 1} ELSE {0}) } :
          na \in 1..MaxArtists, nt \in 0..MaxTracks }

InitAlbum ==
  /\ ProcIdle /\ PageIdle /\ SanIdle /\ ExportIdle /\ TreeIdle
  /\ albumItem \in SavedAlbums
  /\ fs = [p \in {outputDir} |-> Dir]
  /\ apc = "mkdirAlbums"

\* await fs.mkdir(albumsDir, { recursive: true })
MkdirAlbums ==
  /\ apc = "mkdirAlbums"
  /\ fs' = Mkdir(fs, albumsDir)
  /\ apc' = "mkdirAlbum"
  /\ UNCHANGED <<albumItem, exceptAlbum>>

\* await fs.mkdir(fullAlbumPath, { recursive: true })
MkdirAlbum ==
  /\ apc = "mkdirAlbum"
  /\ fs' = Mkdir(fs, fullAlbumPath(albumItem.album))
  /\ apc' = "writeAlbum"
  /\ UNCHANGED <<albumItem, exceptAlbum>>

\* await fs.writeFile(path.join(fullAlbumPath, 'album_info.json'), ...)
WriteAlbum ==
  /\ apc = "writeAlbum"
  /\ fs' = WriteFile(fs,
             PathJoin(fullAlbumPath(albumItem.album), <<"album_info.json">>),
             albumInfo(albumItem.album))
  /\ apc' = "saved"
  /\ UNCHANGED <<albumItem, exceptAlbum>>

NextAlbum == MkdirAlbums \/ MkdirAlbum \/ WriteAlbum

SpecAlbum == InitAlbum /\ [][NextAlbum]_vars

\* The files of the output tree.
Files == {p \in DOMAIN fs : fs[p].type = "file"}

\* Albums/A, B - T/album_info.json under the output directory.
AlbumABTPath ==
  outputDir \o << <<"Albums">>, <<"A", ", ", "B", " - ", "T">>,
                  <<"album_info.json">> >>

\* The credited names (one element each) with ", " between them.
NamesCommaJoined(artists) ==
  [i \in 1..(2 * Len(artists) - 1) |->
     IF i % 2 = 1 THEN artists[(i + 1) \div 2].name[1] ELSE ", "]

\* The album is written to one file; artists A, B and title T give
\* Albums/A, B - T/album_info.json; `artist` is the names joined by ", ".
AlbumWrittenAt(album) ==
  /\ Cardinality(Files) = 1
  /\ \A p \in Files :
       /\ Len(p) = Len(outputDir) + 3
       /\ SubSeq(p, 1, Len(outputDir) + 1) = outputDir \o << <<"Albums">> >>
       /\ p[Len(p)] = <<"album_info.json">>
       /\ fs[p].json.artist = NamesCommaJoined(album.artists)
       /\ fs[p].json.name = album.name
  /\ (album.artists = << [name |-> <<"A">>], [name |-> <<"B">>] >>
        /\ album.name = <<"T">>) => Files = {AlbumABTPath}

\* C10 as stated: the album of artists A, B and title T is written to
\* Albums/A, B - T/album_info.json, `artist` is the names joined by ", " in
\* API order, total_tracks equals the number of written tracks, and the
\* written tracks are in ascending track_number order whatever order the
\* API returned them in.
C10_AlbumTracksSorted ==
  apc = "saved" =>
    /\ AlbumWrittenAt(albumItem.album)
    /\ \A p \in Files :
         LET tracks == fs[p].json.tracks
         IN /\ fs[p].json.total_tracks = Len(tracks)
            /\ \A i, j \in 1..Len(tracks) :
                 i < j => tracks[i].track_number <= tracks[j].track_number

\* C10 amended: path and `artist` as stated; total_tracks is the item's
\* album.total_tracks, and the written tracks are the item's embedded
\* tracks, one entry each, in the order the API returned them.
C10_AlbumTracksApiOrder ==
  apc = "saved" =>
    /\ AlbumWrittenAt(albumItem.album)
    /\ \A p \in Files :
         LET tracks == fs[p].json.tracks
             given  == albumItem.album.tracks.items
         IN /\ fs[p].json.total_tracks = albumItem.album.total_tracks
            /\ Len(tracks) = Len(given)
            /\ \A i \in 1..Len(tracks) :
                 /\ tracks[i].track_number = given[i].track_number
                 /\ tracks[i].uri = given[i].uri

\* The album of A and B titled T, whose tracks the API returned as numbers
\* 2, 1, has been written.
C10_Witness ==
  /\ apc = "saved"
  /\ AlbumABTPath \in Files
  /\ fs[AlbumABTPath].json.artist = <<"A", ", ", "B">>
  /\ Len(fs[AlbumABTPath].json.tracks) = 2
  /\ fs[AlbumABTPath].json.tracks[1].track_number = 2
  /\ fs[AlbumABTPath].json.tracks[2].track_number = 1

(***************************************************************************)
(* One export run with names and paths in full: the save* functions of     *)
(* src/index.js, and getPlaylistFolderMap and savePlaylists(folderMap) of  *)
(* the playlist-folder variant (src/unnamed/part_001 lines 160-252).       *)
(* One action is one awaited fs call of a stage together with the          *)
(* synchronous code that follows it; the page fetches between them leave   *)
(* the disk as it is.                                                      *)
(***************************************************************************)
\* Names the service can return for an entity or a folder: the empty name,
\* the two names path.join treats specially, a plain name, and a name with
\* a path separator.
Names == { <<>>, <<".">>, <<".", ".">>, <<"a">>, <<"a", "/", "b">> }

PlaylistUris == {"spotify:playlist:1", "spotify:playlist:2"}

\* path.join(currentPath, name) for a relative currentPath ('' at the top).
RelJoin(currentPath, name) == Normalize(currentPath \o Split(name), <<>>, FALSE)

\* path.join(dir, folderPath) for an absolute dir and a relative folderPath.
PathJoinRel(dir, folderPath) == Normalize(dir \o folderPath, <<>>, TRUE)

PlaylistRef(u) == [type |-> "playlist", uri |-> u]
Folder(n, its) == [type |-> "folder", name |-> n, items |-> its]

RECURSIVE RootlistNodes(_)
\* The rootlist nodes of folder depth at most d: a playlist reference, or a
\* folder that is empty or holds one node.
RootlistNodes(d) ==
  IF d = 0 THEN {PlaylistRef(u) : u \in PlaylistUris}
  ELSE LET below == RootlistNodes(d - 1)
       IN below \cup {Folder(n, <<>>) : n \in Names}
                \cup {Folder(n, <<c>>) : n \in Names, c \in below}

\* response.data.items of the rootlist endpoint.
Rootlists == {<<>>} \cup {<<c>> : c \in RootlistNodes(MaxDepth)}

\* map.set(uri, path)
MapSet(m, u, path) ==
  [k \in DOMAIN m \cup {u} |-> IF k = u THEN path ELSE m[k]]

RECURSIVE parseItemsUnsanitized(_, _, _)
\* A resolver that joins the folder's raw name onto the path.
parseItemsUnsanitized(its, currentPath, m) ==
  IF its = <<>> THEN m
  ELSE LET it == Head(its)
           m1 == IF it.type = "playlist"
                   THEN MapSet(m, it.uri, currentPath)
                   ELSE parseItemsUnsanitized(it.items,
                          RelJoin(currentPath, it.name), m)
       IN parseItemsUnsanitized(Tail(its), currentPath, m1)

RECURSIVE parseItems(_, _, _)
\* const parseItems = (items, currentPath) => { ... }, the map threaded
\* through the traversal.
parseItems(its, currentPath, m) ==
  IF its = <<>> THEN m
  ELSE LET it == Head(its)
           m1 == IF it.type = "playlist"
                   THEN MapSet(m, it.uri, currentPath)
                   ELSE parseItems(it.items,
                          RelJoin(currentPath, sanitizeFilename(it.name)), m)
       IN parseItems(Tail(its), currentPath, m1)

podcastsDir == PathJoin(outputDir, <<"Podcasts">>)
artistsDir == PathJoin(outputDir, <<"Artists">>)
playlistsDir == PathJoin(outputDir, <<"Playlists">>)

\* The directory a stage creates before its item loop.
StageDir(s) ==
  CASE s = "Podcasts" -> podcastsDir
    [] s = "FollowedArtists" -> artistsDir
    [] s = "Albums" -> albumsDir
    [] OTHER -> playlistsDir

\* const folderPath = folderMap.get(playlist.uri) || ''
folderPathOf(m, u) == IF u \in DOMAIN m THEN m[u] ELSE <<>>

\* const finalDirectory = path.join(basePlaylistsDir, folderPath);
\* index.js writes every playlist into playlistsDir.
finalDirectory(v, m, u) ==
  IF v = "primary" THEN playlistsDir
  ELSE PathJoinRel(playlistsDir, folderPathOf(m, u))

\* The await the run is suspended at. `item` holds the entity whose mkdir
\* has resolved and whose writeFile is pending (at most one).
At(s, ph) == [stage |-> s, phase |-> ph, item |-> <<>>]
Holding(s, it) == [stage |-> s, phase |-> "write", item |-> <<it>>]

\* The stage after s, or the end of the run: process.exit(0).
AfterStage(s) ==
  IF StageIndex(s) = Len(StageOrder) THEN At("exit0", "end")
  ELSE At(StageOrder[StageIndex(s) + 1], "enter")

InitExport ==
  /\ ProcIdle /\ PageIdle /\ SanIdle /\ AlbumIdle /\ TreeIdle
  /\ variant \in {"primary", "folders", "template"}
  /\ folderMap = <<>>
  /\ xpc = At("start", "enter")
  /\ budget = MaxEntities
  /\ fs = <<>>

\* The folder variant as published: the bearer token placeholder was not
\* replaced, the handler exits before anything is written.
PlaceholderExit ==
  /\ variant = "template" /\ xpc = At("start", "enter")
  /\ xpc' = At("exit1", "end")
  /\ UNCHANGED <<variant, folderMap, budget, fs, exceptExport>>

\* await fs.mkdir(outputDir, { recursive: true })
MkdirOutputDir ==
  /\ variant \in {"primary", "folders"} /\ xpc = At("start", "enter")
  /\ fs' = Mkdir(fs, outputDir)
  /\ xpc' = IF variant = "folders" THEN At("folderMap", "enter")
                                   ELSE At(StageOrder[1], "enter")
  /\ UNCHANGED <<variant, folderMap, budget, exceptExport>>

\* getPlaylistFolderMap: the rootlist request succeeds with `rootlist` as
\* response.data.items.
GetPlaylistFolderMap(rootlist) ==
  /\ xpc = At("folderMap", "enter")
  /\ folderMap' = parseItems(rootlist, <<>>, <<>>)
  /\ xpc' = At(StageOrder[1], "enter")
  /\ UNCHANGED <<variant, budget, fs, exceptExport>>

\* getPlaylistFolderMap: the rootlist request throws; process.exit(1).
FolderMapFails ==
  /\ xpc = At("folderMap", "enter")
  /\ xpc' = At("exit1", "end")
  /\ UNCHANGED <<variant, folderMap, budget, fs, exceptExport>>

\* The head of a save* function up to the resolved fs.mkdir of its
\* directory (saveLikedSongs, savePodcasts, saveAlbums and savePlaylists
\* drain their collection first, saveFollowedArtists afterwards).
MkdirStageDir ==
  /\ xpc.phase = "enter"
  /\ xpc.stage \in {"LikedSongs", "Podcasts", "FollowedArtists", "Albums",
                    "Playlists"}
  /\ fs' = Mkdir(fs, StageDir(xpc.stage))
  /\ xpc' = IF xpc.stage = "LikedSongs" THEN Holding("LikedSongs", "Liked Songs")
                                        ELSE At(xpc.stage, "items")
  /\ UNCHANGED <<variant, folderMap, budget, exceptExport>>

\* saveLikedSongs: fs.writeFile(Playlists/Liked Songs.json) resolves.
SaveLikedSongsWrite ==
  /\ xpc.stage = "LikedSongs" /\ xpc.phase = "write"
  /\ fs' = WriteFile(fs, PathJoin(playlistsDir, <<"Liked Songs.json">>),
                     [name |-> <<"Liked Songs">>])
  /\ xpc' = AfterStage("LikedSongs")
  /\ UNCHANGED <<variant, folderMap, budget, exceptExport>>

\* savePodcasts, one show: fs.mkdir(fullShowPath) resolves.
SavePodcastsMkdir(name) ==
  /\ xpc = At("Podcasts", "items") /\ budget > 0
  /\ fs' = Mkdir(fs, PathJoin(podcastsDir, sanitizeFilename(name)))
  /\ xpc' = Holding("Podcasts", name)
  /\ budget' = budget - 1
  /\ UNCHANGED <<variant, folderMap, exceptExport>>

\* savePodcasts, one show: fs.writeFile(<show>/show_info.json) resolves.
SavePodcastsWrite ==
  /\ xpc.stage = "Podcasts" /\ xpc.phase = "write"
  /\ LET name == xpc.item[1]
         fullShowPath == PathJoin(podcastsDir, sanitizeFilename(name))
     IN fs' = WriteFile(fs, PathJoin(fullShowPath, <<"show_info.json">>),
                        [name |-> name])
  /\ xpc' = At("Podcasts", "items")
  /\ UNCHANGED <<variant, folderMap, budget, exceptExport>>

\* saveFollowedArtists, one artist: fs.writeFile(<artist>.json) resolves.
SaveArtist(name) ==
  /\ xpc = At("FollowedArtists", "items") /\ budget > 0
  /\ fs' = WriteFile(fs,
             PathJoin(artistsDir, sanitizeFilename(name) \o <<".json">>),
             [name |-> name])
  /\ budget' = budget - 1
  /\ UNCHANGED <<variant, folderMap, xpc, exceptExport>>

\* saveAlbums, one album: fs.mkdir(fullAlbumPath) resolves.
SaveAlbumsMkdir(album) ==
  /\ xpc = At("Albums", "items") /\ budget > 0
  /\ fs' = Mkdir(fs, fullAlbumPath(album))
  /\ xpc' = Holding("Albums", album)
  /\ budget' = budget - 1
  /\ UNCHANGED <<variant, folderMap, exceptExport>>

\* saveAlbums, one album: fs.writeFile(<folder>/album_info.json) resolves.
SaveAlbumsWrite ==
  /\ xpc.stage = "Albums" /\ xpc.phase = "write"
  /\ LET album == xpc.item[1]
     IN fs' = WriteFile(fs,
                PathJoin(fullAlbumPath(album), <<"album_info.json">>),
                albumInfo(album))
  /\ xpc' = At("Albums", "items")
  /\ UNCHANGED <<variant, folderMap, budget, exceptExport>>

\* savePlaylists, one playlist, up to the fetch of its tracks: the folder
\* variant first awaits fs.mkdir(finalDirectory), index.js creates nothing.
SavePlaylistsNext(name, u) ==
  /\ xpc = At("Playlists", "items") /\ budget > 0
  /\ fs' = IF variant = "primary" THEN fs
           ELSE Mkdir(fs, finalDirectory(variant, folderMap, u))
  /\ xpc' = Holding("Playlists", [name |-> name, uri |-> u])
  /\ budget' = budget - 1
  /\ UNCHANGED <<variant, folderMap, exceptExport>>

\* savePlaylists, one playlist: its tracks have arrived and
\* fs.writeFile(<directory>/<playlist>.json) resolves.
SavePlaylistsWrite ==
  /\ xpc.stage = "Playlists" /\ xpc.phase = "write"
  /\ LET playlist == xpc.item[1]
         dir == finalDirectory(variant, folderMap, playlist.uri)
     IN fs' = WriteFile(fs,
                PathJoin(dir, sanitizeFilename(playlist.name) \o <<".json">>),
                [name |-> playlist.name, uri |-> playlist.uri])
  /\ xpc' = At("Playlists", "items")
  /\ UNCHANGED <<variant, folderMap, budget, exceptExport>>

\* The item loop of a stage ends.
StageDone ==
  /\ xpc.phase = "items"
  /\ xpc' = AfterStage(xpc.stage)
  /\ UNCHANGED <<variant, folderMap, budget, fs, exceptExport>>

\* A saved album of one artist with no embedded track.
AlbumNamed(artist, title) ==
  [ name |-> title, artists |-> <<[name |-> artist]>>, id |-> "album1",
    uri |-> "spotify:album:1", release_date |-> "2024", total_tracks |-> 0,
    tracks |-> [items |-> <<>>] ]

NextExport ==
  \/ PlaceholderExit
  \/ MkdirOutputDir
  \/ \E rootlist \in Rootlists : GetPlaylistFolderMap(rootlist)
  \/ FolderMapFails
  \/ MkdirStageDir
  \/ SaveLikedSongsWrite
  \/ \E name \in Names : SavePodcastsMkdir(name)
  \/ SavePodcastsWrite
  \/ \E name \in Names : SaveArtist(name)
  \/ \E artist \in ArtistNames, title \in Names :
       SaveAlbumsMkdir(AlbumNamed(artist, title))
  \/ SaveAlbumsWrite
  \/ \E name \in Names, u \in PlaylistUris : SavePlaylistsNext(name, u)
  \/ SavePlaylistsWrite
  \/ StageDone

SpecExport == InitExport /\ [][NextExport]_vars

\* p is the output directory or lies below it.
UnderOutputDir(p) ==
  Len(p) >= Len(outputDir) /\ SubSeq(p, 1, Len(outputDir)) = outputDir

\* C9: every file and directory the export has written lies under the fixed
\* root output directory, whatever names the service returns (also "." and
\* "..", and nested folders with such names in the folder-map variant).
C9_WritesUnderRoot == \A p \in DOMAIN fs : UnderOutputDir(p)

(***************************************************************************)
(* getPlaylistFolderMap and savePlaylists(folderMap) observed against a    *)
(* stub rootlist endpoint, in a library that holds playlists only.         *)
(***************************************************************************)
\* Folder names of the stub: two plain names, "..", the empty name and a
\* name with a path separator.
FolderNames ==
  { <<"Rock">>, <<"Classic">>, <<".", ".">>, <<>>, <<"a", "/", "b">> }

RECURSIVE ItemLists(_)
\* The item lists of a level with at most d folder levels below it: empty,
\* one playlist, one folder, or a playlist followed by a folder.
ItemLists(d) ==
  LET flat == {<<>>} \cup {<<PlaylistRef(u)>> : u \in PlaylistUris}
  IN IF d = 0 THEN flat
     ELSE LET below == ItemLists(d - 1)
          IN flat
             \cup {<<Folder(n, l)>> : n \in FolderNames, l \in below}
             \cup {<<PlaylistRef(u), Folder(n, l)>> :
                     u \in PlaylistUris, n \in FolderNames, l \in below}

InitResolver ==
  /\ ProcIdle /\ PageIdle /\ SanIdle /\ AlbumIdle
  /\ rootItems \in ItemLists(MaxDepth)
  /\ variant = "folders"
  /\ folderMap = <<>>
  /\ xpc = At("folderMap", "enter")
  /\ budget = MaxEntities
  /\ fs = [p \in {outputDir} |-> Dir]

NextResolver ==
  \/ GetPlaylistFolderMap(rootItems)
  \/ MkdirStageDir
  \/ SaveLikedSongsWrite
  \/ StageDone
  \/ \E u \in PlaylistUris : SavePlaylistsNext(<<"a">>, u)
  \/ SavePlaylistsWrite

SpecResolver == InitResolver /\ [][NextResolver]_vars

RECURSIVE FoldersAbove(_, _, _)
\* The name sequences, outermost first, of the folders above the references
\* to playlist u in the item list `its` (itself below the folders `names`),
\* in the order a pre-order walk of the tree meets the references.
FoldersAbove(its, u, names) ==
  IF its = <<>> THEN <<>>
  ELSE LET it == Head(its)
           here == IF it.type = "playlist"
                     THEN (IF it.uri = u THEN <<names>> ELSE <<>>)
                     ELSE FoldersAbove(it.items, u, Append(names, it.name))
       IN here \o FoldersAbove(Tail(its), u, names)

Sanitized(names) == [i \in 1..Len(names) |-> sanitizeFilename(names[i])]

\* Names path.join does not keep as a path segment of their own.
JoinSpecial == { <<>>, <<".">>, <<".", ".">> }

\* path.join of a sequence of sanitized folder names: "" and "." add no
\* segment, ".." removes the segment before it, or stays when there is none.
Joined(names) == Normalize(names, <<>>, FALSE)

\* Folder("Rock", [PlaylistRef(1), Folder("Classic", [PlaylistRef(2)])])
RockTree ==
  << Folder(<<"Rock">>,
            << PlaylistRef("spotify:playlist:1"),
               Folder(<<"Classic">>, <<PlaylistRef("spotify:playlist:2")>>) >>) >>

\* Folder("Rock", [PlaylistRef(1), Folder("..", [PlaylistRef(2)])])
RockDotDotTree ==
  << Folder(<<"Rock">>,
            << PlaylistRef("spotify:playlist:1"),
               Folder(<<".", ".">>, <<PlaylistRef("spotify:playlist:2")>>) >>) >>

\* The files savePlaylists has written for playlist u.
PlaylistFiles(u) ==
  {p \in Files : "uri" \in DOMAIN fs[p].json /\ fs[p].json.uri = u}

\* The Rock/Classic tree gives uriA -> Rock and uriB -> Rock/Classic.
RockExample ==
  rootItems = RockTree =>
    /\ DOMAIN folderMap = PlaylistUris
    /\ folderMap["spotify:playlist:1"] = << <<"Rock">> >>
    /\ folderMap["spotify:playlist:2"] = << <<"Rock">>, <<"Classic">> >>

\* A playlist whose URI is not in the map is written directly in Playlists/.
AbsentAtRoot ==
  \A u \in PlaylistUris :
    u \notin DOMAIN folderMap =>
      PlaylistFiles(u) \subseteq {playlistsDir \o << <<"a", ".json">> >>}

DerivedName(p) ==
  LET json == fs[p].json
  IN CASE p[Len(p)] = <<"show_info.json">> -> sanitizeFilename(json.name)
       [] p[Len(p)] = <<"album_info.json">> ->
            sanitizeFilename(json.artist \o <<" - ">> \o json.name)
       [] OTHER -> sanitizeFilename(json.name) \o <<".json">>

\* C16: every directory or file name derived from an entity name is
\* non-empty and holds no path separator and no reserved character,
\* whatever name the service returned (the empty name included).
C16_DerivedNamesWellFormed ==
  \A p \in Files :
    p[Len(p)] # <<"Liked Songs.json">> =>
      /\ DerivedName(p) # <<>>
      /\ \A i \in 1..Len(DerivedName(p)) : DerivedName(p)[i] \notin Reserved

\* C11: a failing folder-tree fetch (the request throws, the credential is
\* expired or invalid) never terminates or fails the export: the run goes on
\* to its five stages instead of exiting with an error code.
C11_ResolverFailureDegrades ==
  variant = "folders" => xpc # At("exit1", "end")

(***************************************************************************)
(* The pagination loops: fetchAllItems (src/index.js lines 44-57) and the  *)
(* cursor loop of saveFollowedArtists (lines 220-230), each run against a  *)
(* stub endpoint.                                                          *)
(***************************************************************************)
\* const limit = 50
limit == 50

\* Sizes of the pages a stub serves (at most `limit` items each).
PageSizes == {0, 1, 23, 50}

\* The items of page p: each item is named by its page and its place in it.
PageItems(p, n) == [k \in 1..n |-> <<p, k>>]

\* JavaScript values that end a `while (x)` loop.
Falsy == {"null", "undefined", ""}

\* The cursor the stub hands out with its p-th page.
Cursor(p) == <<"c", p>>

\* Stub offset endpoints: up to MaxPages pages; body.next is a URL (TRUE) or
\* null (FALSE), and the last page served has no next.
OffsetEndpoints ==
  UNION { { [p \in 1..n |->
               [items |-> PageItems(p, sz[p]),
                next  |-> IF p = n THEN FALSE ELSE nx[p]]] :
              sz \in [1..n -> PageSizes], nx \in [1..n -> BOOLEAN] } :
          n \in 1..MaxPages }

\* Stub cursor endpoints: every page but the last carries a cursor.
CursorEndpoints ==
  UNION { { [p \in 1..n |->
               [items |-> PageItems(p, sz[p]),
                after |-> IF p = n THEN last ELSE Cursor(p)]] :
              sz \in [1..n -> {0, 1, 2}], last \in Falsy } :
          n \in 1..MaxPages }

\* spotifyApi.getMySaved*({limit, offset}) of the stub: the page holding
\* the requested offset.
ApiCall(ep, opts) == ep[(opts.offset \div opts.limit) + 1]

\* spotifyApi.getFollowedArtists({limit, after}) of the stub: the first
\* page for a null cursor, else the page following the one that handed the
\* cursor out.
CursorCall(ep, opts) ==
  IF opts.after = "null"
    THEN ep[1]
    ELSE ep[(CHOOSE p \in 1..Len(ep) : ep[p].after = opts.after) + 1]

\* An engine that advances by the number of items received.
NextOffsetByItems(off, response) == off + Len(response.items)

\* offset += limit
NextOffset(off, response) == off + limit

\* A loop that sends no cursor.
NextAfterDropped(response) == "null"

\* after = response.body.artists.cursors.after
\* (the loop then tests it: `while (after)`)
NextAfter(response) == response.after

InitPaging ==
  /\ ProcIdle /\ SanIdle /\ AlbumIdle /\ ExportIdle /\ FsIdle /\ TreeIdle
  /\ drainer \in {"offset", "cursor"}
  /\ endpoint \in (IF drainer = "offset" THEN OffsetEndpoints
                                         ELSE CursorEndpoints)
  /\ dpc = "start"
  /\ items = <<>> /\ offset = 0 /\ after = "null" /\ calls = <<>>

\* fetchAllItems is entered: the first apiCall is issued and awaited.
FetchAllItemsCall ==
  /\ drainer = "offset" /\ dpc = "start"
  /\ calls' = <<[limit |-> limit, offset |-> offset]>>
  /\ dpc' = "await"
  /\ UNCHANGED <<drainer, endpoint, items, offset, after, exceptPaging>>

\* A loop that also gives up on a page without items:
\* while (response.body.next && response.body.items.length)
FetchPageStopsOnEmpty ==
  /\ drainer = "offset" /\ dpc = "await"
  /\ LET response == ApiCall(endpoint, calls[Len(calls)])
         next     == NextOffset(offset, response)
     IN /\ items' = items \o response.items
        /\ offset' = next
        /\ IF response.next /\ response.items # <<>>
             THEN /\ calls' = Append(calls, [limit |-> limit, offset |-> next])
                  /\ dpc' = "await"
             ELSE /\ calls' = calls
                  /\ dpc' = "returned"
  /\ UNCHANGED <<drainer, endpoint, after, exceptPaging>>

\* The awaited apiCall of fetchAllItems is answered: the rest of the do-while
\* iteration, and when the loop goes on the next apiCall, issued and awaited.
FetchPage ==
  /\ drainer = "offset" /\ dpc = "await"
  /\ LET response == ApiCall(endpoint, calls[Len(calls)])
         next     == NextOffset(offset, response)
     IN /\ items' = items \o response.items
        /\ offset' = next
        /\ IF response.next
             THEN /\ calls' = Append(calls, [limit |-> limit, offset |-> next])
                  /\ dpc' = "await"
             ELSE /\ calls' = calls
                  /\ dpc' = "returned"
  /\ UNCHANGED <<drainer, endpoint, after, exceptPaging>>

\* saveFollowedArtists enters its do-while loop: the first
\* getFollowedArtists call is issued and awaited.
FollowedArtistsCall ==
  /\ drainer = "cursor" /\ dpc = "start"
  /\ calls' = <<[limit |-> 50, after |-> after]>>
  /\ dpc' = "await"
  /\ UNCHANGED <<drainer, endpoint, items, offset, after, exceptPaging>>

\* The awaited getFollowedArtists call is answered: the rest of the
\* iteration, and when the loop goes on the next call, issued and awaited.
FetchArtistsPage ==
  /\ drainer = "cursor" /\ dpc = "await"
  /\ LET response == CursorCall(endpoint, calls[Len(calls)])
         cursor   == NextAfter(response)
     IN /\ items' = items \o response.items
        /\ after' = cursor
        /\ IF cursor \in Falsy
             THEN /\ calls' = calls
                  /\ dpc' = "returned"
             ELSE /\ calls' = Append(calls, [limit |-> 50, after |-> cursor])
                  /\ dpc' = "await"
  /\ UNCHANGED <<drainer, endpoint, offset, exceptPaging>>

NextPaging ==
  \/ FetchAllItemsCall
  \/ FetchPage
  \/ FollowedArtistsCall
  \/ FetchArtistsPage

SpecPaging == InitPaging /\ [][NextPaging]_vars

\* fetchAllItems alone against a stub endpoint.
InitOffsetDrain == InitPaging /\ drainer = "offset"

NextOffsetDrain == FetchAllItemsCall \/ FetchPage

\* fetchAllItems, once called, runs to its first await; the awaited apiCall
\* of a suspended fetchAllItems is eventually answered by the stub, and the
\* loop's continuation then runs (every iteration advances the offset).
SpecOffsetDrainFair ==
  /\ InitOffsetDrain /\ [][NextOffsetDrain]_vars
  /\ WF_dpc(FetchAllItemsCall) /\ WF_offset(FetchPage)

\* The number of calls answered so far: all the calls issued, but the one
\* the loop is suspended at.
Answered == IF dpc = "await" THEN Len(calls) - 1 ELSE Len(calls)

RECURSIVE Concat(_, _)
\* The items of the first k pages of a stub, in page order.
Concat(ep, k) == IF k = 0 THEN <<>> ELSE Concat(ep, k - 1) \o ep[k].items

\* Every page but the last signals a next page, and the last does not.
AllButLastNext(ep) ==
  /\ \A p \in 1..(Len(ep) - 1) : ep[p].next
  /\ ~ep[Len(ep)].next

\* C5: against pages p0..pn of which only pn has no next, fetchAllItems
\* issues exactly n+1 fetches with limit 50 and offsets 0, 50, ..., 50*n,
\* whatever the pages' sizes, and returns the pages' items concatenated in
\* page order and page-internal order.
C5_OffsetDrain ==
  (drainer = "offset" /\ AllButLastNext(endpoint)) =>
    /\ Len(calls) <= Len(endpoint)
    /\ \A i \in 1..Len(calls) :
         calls[i] = [limit |-> 50, offset |-> 50 * (i - 1)]
    /\ dpc = "returned" =>
         /\ Len(calls) = Len(endpoint)
         /\ items = Concat(endpoint, Len(endpoint))

\* Pages of 50, 50 and 23 items have been drained into 123 items.
C5_Witness ==
  /\ drainer = "offset" /\ dpc = "returned"
  /\ AllButLastNext(endpoint)
  /\ Len(calls) = 3
  /\ Len(items) = 123
  /\ items[51] = <<2, 1>> /\ items[123] = <<3, 23>>

\* The first page of the stub whose next signal is falsy.
FirstNoNext(ep) ==
  CHOOSE p \in 1..Len(ep) : ~ep[p].next /\ \A q \in 1..(p - 1) : ep[q].next

\* C14: against an endpoint that eventually serves a page without a next
\* signal, fetchAllItems terminates, also when earlier pages signal a next
\* page with an empty items array; it has returned exactly when it has
\* fetched the first page whose next is falsy, and fetches nothing after it.
C14_OffsetDrainTerminates ==
  /\ [](drainer = "offset" =>
          /\ Len(calls) <= FirstNoNext(endpoint)
          /\ dpc = "returned" <=> Answered = FirstNoNext(endpoint))
  /\ <>(drainer = "offset" => dpc = "returned")

\* The stub's first page was empty and signalled a next page, its second
\* page had no next signal, and its third page was never fetched.
C14_Witness ==
  /\ drainer = "offset" /\ dpc = "returned"
  /\ Len(endpoint) = 3
  /\ endpoint[1].items = <<>> /\ endpoint[1].next
  /\ ~endpoint[2].next
  /\ Len(calls) = 2

\* C6: the followed-artists loop sends a null `after` first, then the
\* `after` of the previous response, and stops at the first response whose
\* `after` is null or absent; its result is the pages' artists in order.
C6_CursorDrain ==
  drainer = "cursor" =>
    /\ Len(calls) >= 1 => calls[1] = [limit |-> 50, after |-> "null"]
    /\ \A i \in 2..Len(calls) :
         /\ calls[i].after = CursorCall(endpoint, calls[i - 1]).after
         /\ calls[i].after \notin Falsy
    /\ dpc = "await" =>
         \A i \in 1..Answered :
           CursorCall(endpoint, calls[i]).after \notin Falsy
    /\ dpc = "returned" =>
         /\ CursorCall(endpoint, calls[Len(calls)]).after \in Falsy
         /\ \A i \in 1..(Len(calls) - 1) :
              CursorCall(endpoint, calls[i]).after \notin Falsy
         /\ items = Concat(endpoint, Len(calls))

\* A server that returned the cursors c1, c2, null was fetched three times.
C6_Witness ==
  /\ drainer = "cursor" /\ dpc = "returned"
  /\ Len(endpoint) = 3 /\ endpoint[3].after = "null"
  /\ Len(calls) = 3
  /\ calls[2].after = Cursor(1) /\ calls[3].after = Cursor(2)
  /\ Len(items) = 3

(***************************************************************************)
(* Properties of the orchestration.                                        *)
(***************************************************************************)
IsPrefix(s, t) == Len(s) <= Len(t) /\ \A i \in 1..Len(s) : s[i] = t[i]

\* The stage messages of a complete run, in the order the claims state.
FullConsole ==
  << <<"start", "LikedSongs">>,      <<"done", "LikedSongs">>,
     <<"start", "Podcasts">>,        <<"done", "Podcasts">>,
     <<"start", "FollowedArtists">>, <<"done", "FollowedArtists">>,
     <<"start", "Albums">>,          <<"done", "Albums">>,
     <<"start", "Playlists">>,       <<"done", "Playlists">> >>

\* The step in which activation r logs that its current stage is complete.
CompletesStage(r) ==
  /\ Len(handlers'[r].console) > Len(H(r).console)
  /\ handlers'[r].console[Len(H(r).console) + 1] = <<"done", H(r).stage>>

\* Nothing of the current stage is left to fetch or write once the awaited
\* call resolves: it is the last write, or the collection is empty.
LastAwaitOfStage(h) ==
  \/ h.pc = "write" /\ (h.stage = "LikedSongs" \/ h.todo = 1)
  \/ h.pc \in {"mkdir", "fetch"} /\ h.todo = 0

\* C1: within one pipeline run the stages start in the order LikedSongs,
\* Podcasts, FollowedArtists, Albums, Playlists, a stage starts only after
\* the previous one has completed with all its fetches and writes done, and
\* the process exits with code 0 only after Playlists has completed.
C1_StagesSequential ==
  /\ [](\A r \in Requests : IsPrefix(H(r).console, FullConsole))
  /\ []((exited /\ exitCode = 0) =>
          \E r \in Requests : H(r).console = FullConsole)
  /\ [][\A r \in Requests : CompletesStage(r) => LastAwaitOfStage(H(r))]_vars

C1_Witness ==
  /\ exited /\ exitCode = 0
  /\ \E r \in Requests : H(r).console = FullConsole /\ H(r).pc = "done"

PipelineStarts == Cardinality({r \in Requests : H(r).started})

\* C2: for any sequence of /login and /callback requests of one process
\* lifetime the export pipeline is started at most once.
C2_PipelineStartedOnce == PipelineStarts <= 1

\* C3: when a fetch or write inside a stage fails after authentication, the
\* process terminates with a non-zero exit status.
C3_StageFailureTerminates ==
  \A r \in Requests :
    (H(r).failedAt \in {"fetch", "write"} /\ H(r).stage # "none")
      => (exited /\ exitCode # 0)

AuthFailed(h) ==
  \/ h.pc = "errorReturned"
  \/ h.pc = "caught" /\ h.failedAt = "grant"

\* C4: when authentication fails (an `error` parameter, or the code exchange
\* throws) no stage is started and nothing is written for that request, and
\* the failure leaves the process alive, able to serve a later /login and
\* /callback.
C4_AuthFailureHarmless ==
  /\ [](\A r \in Requests :
          AuthFailed(H(r)) =>
            ~H(r).started /\ ~H(r).wrote /\ H(r).console = <<>>)
  /\ [][\A r \in Requests :
          (AuthFailed(handlers'[r]) /\ ~AuthFailed(H(r))) =>
            /\ ~exited'
            /\ \A q \in Requests :
                 (q > 1 /\ handlers'[q].pc = "new" /\ handlers'[q - 1].pc # "new")
                   => (ENABLED CallbackCode(q))']_vars

C4_Witness ==
  \E r, q \in Requests :
    /\ r < q
    /\ H(r).pc = "caught" /\ H(r).failedAt = "grant"
    /\ H(q).started /\ H(q).wrote

\* Activations suspended at a Web API call.
InFlight == {r \in Requests : H(r).pc \in {"fetch", "trackFetch"}}

\* Activations inside a save* function that has not returned or thrown.
InStage == {r \in Requests : H(r).stage # "none" /\ H(r).pc \notin {"caught", "done"}}

\* C12: at every moment, under any interleaving of callback requests, at
\* most one Web API call is in flight and at most one stage is in progress.
C12_OneCallOneStage ==
  Cardinality(InFlight) <= 1 /\ Cardinality(InStage) <= 1

\* C13: while a collection is being drained none of its entity files is
\* written; when a page fetch fails no item reaches the stage's loop and no
\* entity file of the collection is on disk, and when a playlist's track
\* fetch fails that playlist's file is not on disk; nothing is written after
\* the failure.
C13_NoPartialPersistence ==
  /\ [](\A r \in Requests : H(r).pc = "fetch" => H(r).saved = {})
  /\ [][\A r \in Requests :
          (H(r).pc \in {"fetch", "trackFetch"} /\ handlers'[r].failedAt = "fetch") =>
            /\ handlers'[r].todo = 0
            /\ H(r).pc = "fetch" => handlers'[r].saved = {}
            /\ H(r).pc = "trackFetch" =>
                 CurrentItem(H(r)) \notin handlers'[r].saved]_vars
  /\ [][\A r \in Requests :
          H(r).pc = "caught" => handlers'[r] = H(r)]_vars

\* The Albums drain failed with 429 after a page of items had arrived, and
\* no album file is on disk.
C13_Witness ==
  \E r \in Requests :
    /\ H(r).pc = "caught" /\ H(r).failedAt = "fetch" /\ H(r).status = 429
    /\ H(r).stage = "Albums" /\ H(r).drained >= 1
    /\ H(r).saved = {}

\* C7: projecting a track item whose `track` is null never raises; the export
\* of Liked Songs or of the containing playlist continues.
C7_NullTrackNeverRaises ==
  \A r \in Requests : H(r).failedAt # "project"
====
